---- MODULE Spec2Model ----
(***************************************************************************)
(* Model of scripts/bench_harness.py: the benchmark harness that expands a *)
(* test matrix, runs a child process per repetition, parses its output,    *)
(* collects provenance, persists results and promotes the top performers.  *)
(***************************************************************************)
EXTENDS Integers, Sequences, FiniteSets, TLC

VARIABLES
    \* the runner harness
    child,        \* the child process's behaviour (returncode, duration, stdout)
    rpc,          \* "idle" | "ready" | "parsed" | "returned"
    ret,          \* what the call under test returned
    \* the world the orchestrator runs in
    config,       \* the loaded configuration document (self.config)
    readable,     \* the binary paths that open(path, 'rb') can read
    host,         \* which provenance sources of the host are available
    \* BenchmarkOrchestrator.run_all / generate_reports
    pc,           \* position in main(): see the actions
    matrix,       \* the local 'matrix' of run_all
    idx,          \* index of the test case in hand (1-based)
    rep,          \* the repetition about to run
    provenance,   \* the local 'provenance' of the test case in hand
    run_results,  \* the local 'run_results' of the test case in hand
    results,      \* self.results, the result accumulator
    disk,         \* raw/results.json
    summary,      \* summary.md: the metric tables
    promote,      \* promote.yaml
    interrupted,  \* the process was killed; nothing runs after that
    console,      \* what was printed per repetition: <<idx, rep, ok>>
    collected,    \* the test indexes ProvenanceCollector.collect_all was called for
    saves,        \* the number of _save_incremental_results calls
    \* the report base directory
    report_base,  \* its report directories and its 'latest' symbolic link
    now,          \* the timestamp the report directory is named after
    \* BenchmarkRunner.build_command
    args,         \* the arguments of the call
    cmd           \* the argument vector it returned

runnerVars == <<child, rpc, ret>>
worldVars == <<config, readable, host>>
orchVars == <<pc, matrix, idx, rep, provenance, run_results, results, disk,
              summary, promote, interrupted, console, collected, saves>>
fsVars == <<report_base, now>>
cmdVars == <<args, cmd>>
vars == <<child, rpc, ret, config, readable, host, pc, matrix, idx, rep,
          provenance, run_results, results, disk, summary, promote,
          interrupted, console, collected, saves, report_base,
          now, args, cmd>>

Min(a, b) == IF a <= b THEN a ELSE b
Prefix(s, n) == SubSeq(s, 1, Min(n, Len(s)))
SeqsUpTo(S, n) == UNION {[1..k -> S] : k \in 0..n}

(***************************************************************************)
(* Text.  Process output is a sequence of tokens.  "[", "]", "{", "}" are   *)
(* the single characters; "avg_ts" is the member  "avg_ts": v ; "note["    *)
(* is a member whose string value holds an opening bracket                 *)
(* ( "note": "[" ); "banner" is non-JSON text without brace or bracket.    *)
(* Separating commas are not written: members and items are               *)
(* self-delimiting.                                                        *)
(***************************************************************************)
T(s) == [t |-> s, v |-> 0]
Avg(x) == [t |-> "avg_ts", v |-> x]
LB == T("[")
RB == T("]")
LC == T("{")
RC == T("}")
BANNER == T("banner")
NOTE == T("note[")

\* Whether the characters of token tok include character ch.
HasChar(tok, ch) == tok.t = ch \/ (tok.t = "note[" /\ ch = "[")

\* str.find(ch, start): the first position >= start holding ch, 0 when none
\* (positions are 1-based; Python's -1 is 0 here).
find(s, ch, start) ==
    LET hits == {i \in start..Len(s) : HasChar(s[i], ch)}
    IN  IF hits = {} THEN 0 ELSE CHOOSE i \in hits : \A j \in hits : i <= j

\* str.rfind(ch): the last position holding ch, 0 when none.
rfind(s, ch) ==
    LET hits == {i \in 1..Len(s) : HasChar(s[i], ch)}
    IN  IF hits = {} THEN 0 ELSE CHOOSE i \in hits : \A j \in hits : i >= j

(***************************************************************************)
(* json.loads on token text.  A value is a dict or a list; anything else,  *)
(* or text left over after the value, is a JSONDecodeError.                *)
(***************************************************************************)
NoKey == -1
NoFirst == [kind |-> "none", avg |-> NoKey, nonempty |-> FALSE]
JFail == [ok |-> FALSE, next |-> 0,
          val |-> [kind |-> "none", avg |-> NoKey, nonempty |-> FALSE, first |-> NoFirst]]
JOk(n, v) == [ok |-> TRUE, next |-> n, val |-> v]
Summary(v) == [kind |-> v.kind, avg |-> v.avg, nonempty |-> v.nonempty]

RECURSIVE ParseValue(_, _)
RECURSIVE ParseMembers(_, _, _)
RECURSIVE ParseItems(_, _, _)

ParseMembers(s, i, acc) ==
    IF i > Len(s) THEN JFail
    ELSE IF s[i].t = "}"
         THEN JOk(i + 1, [kind |-> "dict", avg |-> acc.avg,
                          nonempty |-> acc.nonempty, first |-> NoFirst])
    ELSE IF s[i].t = "avg_ts"
         THEN ParseMembers(s, i + 1, [avg |-> s[i].v, nonempty |-> TRUE])
    ELSE IF s[i].t = "note["
         THEN ParseMembers(s, i + 1, [avg |-> acc.avg, nonempty |-> TRUE])
    ELSE JFail

ParseItems(s, i, acc) ==
    IF i > Len(s) THEN JFail
    ELSE IF s[i].t = "]"
         THEN JOk(i + 1, [kind |-> "list", avg |-> NoKey,
                          nonempty |-> acc.nonempty, first |-> acc.first])
    ELSE LET r == ParseValue(s, i)
         IN  IF ~r.ok THEN JFail
             ELSE ParseItems(s, r.next,
                     [nonempty |-> TRUE,
                      first |-> IF acc.nonempty THEN acc.first ELSE Summary(r.val)])

ParseValue(s, i) ==
    IF i > Len(s) THEN JFail
    ELSE IF s[i].t = "{" THEN ParseMembers(s, i + 1, [avg |-> NoKey, nonempty |-> FALSE])
    ELSE IF s[i].t = "[" THEN ParseItems(s, i + 1, [nonempty |-> FALSE, first |-> NoFirst])
    ELSE JFail

json_loads(s) ==
    LET r == ParseValue(s, 1)
    IN  IF r.ok /\ r.next = Len(s) + 1 THEN r ELSE JFail

(***************************************************************************)
(* BenchmarkRunner.parse_bench_output                                      *)
(***************************************************************************)
\* The three things a Python call can do here: return None, return a
\* performance record, or let an exception out.
None == [kind |-> "None", tokens_per_sec |-> NoKey, stddev_ts |-> 0]
Raised == [kind |-> "raised", tokens_per_sec |-> NoKey, stddev_ts |-> 0]
Perf(tps) == [kind |-> "perf", tokens_per_sec |-> tps, stddev_ts |-> 0]

\* A faulty variant: the text between the first '[' and the last ']' taken as it is,
\* with no skipping to the first '{'.
CleanOutput_keeping_banner(output) ==
    LET bracket_start == find(output, "[", 1) IN
    IF bracket_start = 0
    THEN LET brace_start == find(output, "{", 1) IN
         IF brace_start # 0
         THEN [ok |-> TRUE, text |-> SubSeq(output, brace_start, Len(output))]
         ELSE [ok |-> FALSE, text |-> <<>>]
    ELSE LET bracket_end == rfind(output, "]") IN
         IF bracket_end = 0 THEN [ok |-> FALSE, text |-> <<>>]
         ELSE [ok |-> TRUE, text |-> SubSeq(output, bracket_start, bracket_end)]

\* Lines 266-286: the text handed to json.loads, or <<>> with ok = FALSE
\* where the code returns None before parsing.
CleanOutput(output) ==
    LET bracket_start == find(output, "[", 1) IN
    IF bracket_start = 0
    THEN LET brace_start == find(output, "{", 1) IN
         IF brace_start # 0
         THEN [ok |-> TRUE, text |-> SubSeq(output, brace_start, Len(output))]
         ELSE [ok |-> FALSE, text |-> <<>>]
    ELSE LET brace_start == find(output, "{", bracket_start) IN
         IF brace_start = 0 THEN [ok |-> FALSE, text |-> <<>>]
         ELSE LET bracket_end == rfind(output, "]") IN
              IF bracket_end = 0 THEN [ok |-> FALSE, text |-> <<>>]
              ELSE [ok |-> TRUE,
                    text |-> <<LB>> \o SubSeq(output, brace_start, bracket_end)]

\* Lines 289-319: from the parsed document to the performance record.
ExtractPerf(data) ==
    LET result == IF data.kind = "list"
                  THEN (IF data.nonempty THEN data.first
                        ELSE [kind |-> "dict", avg |-> NoKey, nonempty |-> FALSE])
                  ELSE Summary(data)
    IN  IF ~result.nonempty THEN None
        ELSE IF result.kind # "dict" THEN Raised   \* list.get: AttributeError
        ELSE Perf(result.avg)

parse_bench_output(output) ==
    LET cleaned == CleanOutput(output) IN
    IF ~cleaned.ok THEN None
    ELSE LET r == json_loads(cleaned.text) IN
         IF ~r.ok THEN None ELSE ExtractPerf(r.val)

(***************************************************************************)
(* BenchmarkRunner.run_single                                              *)
(***************************************************************************)
TIMEOUT_S == 300

NoResult == [success |-> FALSE, performance |-> None]
RunResult(perf) == [success |-> TRUE, performance |-> perf]

\* A faulty variant: the returncode test of lines 222-225 left out.
run_single_ignoring_returncode(c) ==
    IF c.duration > TIMEOUT_S THEN NoResult
    ELSE LET perf == parse_bench_output(c.stdout) IN
         IF perf.kind # "perf" THEN NoResult ELSE RunResult(perf)

\* Lines 211-248.  subprocess.run raises TimeoutExpired when the child runs
\* past the timeout; every exception ends in "return None".
run_single(c) ==
    IF c.duration > TIMEOUT_S THEN NoResult
    ELSE IF c.returncode # 0 THEN NoResult
    ELSE LET perf == parse_bench_output(c.stdout) IN
         IF perf.kind # "perf" THEN NoResult ELSE RunResult(perf)

(***************************************************************************)
(* BenchmarkRunner.build_command (lines 141-171).  A string is the         *)
(* sequence of its characters; an argument vector is a sequence of         *)
(* strings.  The environment the function also returns is a copy of the    *)
(* process environment and is left out.                                    *)
(***************************************************************************)
\* pat in s : pat occurs in s as a substring.
In(pat, s) ==
    \E i \in 1..(Len(s) - Len(pat) + 1) : SubSeq(s, i, i + Len(pat) - 1) = pat

\* The length of the first word of s, which starts with no blank.
WordLen(s) ==
    LET blanks == {i \in 1..Len(s) : s[i] = " "}
    IN  IF blanks = {} THEN Len(s)
        ELSE (CHOOSE i \in blanks : \A j \in blanks : i <= j) - 1

\* str.split(): the words of s, separated by runs of blanks.
RECURSIVE split(_)
split(s) ==
    IF s = <<>> THEN <<>>
    ELSE IF Head(s) = " " THEN split(Tail(s))
    ELSE <<SubSeq(s, 1, WordLen(s))>> \o split(SubSeq(s, WordLen(s) + 1, Len(s)))

DashO == <<"-", "o">>
DashDashOutput == <<"-", "-", "o", "u", "t", "p", "u", "t">>
Json == <<"j", "s", "o", "n">>
DashM == <<"-", "m">>
DashR == <<"-", "r">>
Numactl == <<"n", "u", "m", "a", "c", "t", "l">>
DashDashNuma == <<"-", "-", "n", "u", "m", "a">>

\* str(n) for the small counts a configuration holds.
Digits == <<"0", "1", "2", "3", "4", "5", "6", "7", "8", "9">>
Str(n) == <<Digits[n + 1]>>

\* Lines 141-171.  a holds the arguments binary, model, metric_args, the
\* pinning's numactl and llama_numa, and the configuration's
\* llama_bench_reps (NoKey when the key is absent).
build_command(a) ==
    LET base == <<a.binary, DashM, a.model>> \o split(a.metric_args)
        forced == IF ~In(DashO, a.metric_args) /\ ~In(DashDashOutput, a.metric_args)
                  THEN base \o <<DashO, Json>>
                  ELSE base
        repeated == IF a.llama_bench_reps # NoKey
                    THEN forced \o <<DashR, Str(a.llama_bench_reps)>>
                    ELSE forced
    IN  IF a.numactl # <<>> THEN <<Numactl>> \o split(a.numactl) \o repeated
        ELSE IF a.llama_numa # <<>> THEN repeated \o <<DashDashNuma, a.llama_numa>>
        ELSE repeated
(***************************************************************************)
(* The configuration document.  builds is the list of build variants (the  *)
(* mapping format is the list of its items in insertion order);            *)
(* builds_select is "all" or a list of names; a metric is a shorthand      *)
(* string or an explicit {name, args} mapping; has_metrics and             *)
(* has_test_matrix say whether the document holds the key at all.          *)
(***************************************************************************)
Build(n) == [name |-> n, binary |-> n]
Pinning(n, numactl) == [name |-> n, numactl |-> numactl]
MetricStr(s) == [is_str |-> TRUE, name |-> s, args |-> ""]
MetricDict(n, a) == [is_str |-> FALSE, name |-> n, args |-> a]
ParsedMetric(n, a) == [name |-> n, args |-> a]

\* config.get('metrics', ['pp512', 'tg128', 'mixed'])  (line 392)
DefaultMetrics == <<MetricStr("pp512"), MetricStr("tg128"), MetricStr("mixed")>>
ConfigMetrics(c) == IF c.has_metrics THEN c.metrics ELSE DefaultMetrics

\* Lines 360-381.  The selection test is  b['name'] in selected .
IsSelected(c, b) == c.builds_select.all \/ b.name \in c.builds_select.names

get_selected_builds(c) == SelectSeq(c.builds, LAMBDA b : IsSelected(c, b))

\* A faulty variant: the 'mixed' shorthand has no branch.
ParseMetric_no_mixed(m) ==
    IF m.is_str
    THEN IF m.name = "pp512" THEN <<ParsedMetric("pp512", "-p 512 -n 0")>>
         ELSE IF m.name = "tg128" THEN <<ParsedMetric("tg128", "-p 0 -n 128")>>
         ELSE <<>>
    ELSE <<ParsedMetric(m.name, m.args)>>

\* Lines 396-407: what one configured metric adds to parsed_metrics.  A
\* string that is none of the three shorthands adds nothing.
ParseMetric(m) ==
    IF m.is_str
    THEN IF m.name = "pp512" THEN <<ParsedMetric("pp512", "-p 512 -n 0")>>
         ELSE IF m.name = "tg128" THEN <<ParsedMetric("tg128", "-p 0 -n 128")>>
         ELSE IF m.name = "mixed" THEN <<ParsedMetric("mixed", "-pg 512,128")>>
         ELSE <<>>
    ELSE <<ParsedMetric(m.name, m.args)>>

RECURSIVE ParseMetrics(_, _)
ParseMetrics(metrics, i) ==
    IF i > Len(metrics) THEN <<>>
    ELSE ParseMetric(metrics[i]) \o ParseMetrics(metrics, i + 1)

\* Lines 418-424.
TestCase(build, test_config, metric) ==
    [build |-> build, pinning |-> test_config, metric |-> metric]

\* Lines 417-425: the inner loop.
MetricLoop(build, test_config, parsed_metrics) ==
    [k \in 1..Len(parsed_metrics) |-> TestCase(build, test_config, parsed_metrics[k])]

\* Lines 410-425: the middle loop.
RECURSIVE PinningLoop(_, _, _, _)
PinningLoop(build, test_configs, parsed_metrics, j) ==
    IF j > Len(test_configs) THEN <<>>
    ELSE MetricLoop(build, test_configs[j], parsed_metrics)
             \o PinningLoop(build, test_configs, parsed_metrics, j + 1)

\* Lines 409-425: the outer loop.
RECURSIVE BuildLoop(_, _, _, _)
BuildLoop(builds, test_configs, parsed_metrics, i) ==
    IF i > Len(builds) THEN <<>>
    ELSE PinningLoop(builds[i], test_configs, parsed_metrics, 1)
             \o BuildLoop(builds, test_configs, parsed_metrics, i + 1)

\* Lines 383-427.  raised: the ValueError of line 389.
generate_test_matrix(c) ==
    IF ~c.has_test_matrix
    THEN [raised |-> TRUE, matrix |-> <<>>]
    ELSE [raised |-> FALSE,
          matrix |-> BuildLoop(get_selected_builds(c), c.test_matrix,
                               ParseMetrics(ConfigMetrics(c), 1), 1)]

\* Lines 437-440.
Repetitions(c) == c.repetitions

(***************************************************************************)
(* Bounded configurations                                                  *)
(***************************************************************************)
MaxBuilds == 2
MaxPinnings == 2
MaxMetrics == 2
MaxReps == 2
MaxTests == 2
MaxTopN == 2

AllBuilds == <<Build("A"), Build("B"), Build("C"), Build("D")>>
AllPinnings == <<Pinning("p1", ""), Pinning("p2", "--interleave=all"),
                 Pinning("p3", "--cpunodebind=0"), Pinning("p4", "--membind=0")>>
ShorthandMetrics == <<MetricStr("pp512"), MetricStr("tg128"), MetricStr("mixed")>>
MetricEntries == {MetricStr("pp512"), MetricStr("tg128"), MetricStr("mixed"),
                  MetricStr("pp1024"), MetricDict("custom", "-p 64 -n 64")}

Selections == {[all |-> TRUE, names |-> {}]}
                  \cup {[all |-> FALSE, names |-> S] : S \in SUBSET {"A", "B", "C"}}

Config(builds, sel, tm, hasTm, metrics, hasM, reps, mode, topn) ==
    [builds |-> builds, builds_select |-> sel, test_matrix |-> tm,
     has_test_matrix |-> hasTm, metrics |-> metrics, has_metrics |-> hasM,
     repetitions |-> reps, mode |-> mode, top_n |-> topn]

\* Configurations for the matrix generator: any selection, any metric list.
MatrixConfigs ==
    {Config(Prefix(AllBuilds, nb), sel, Prefix(AllPinnings, np), hasTm,
            ms, hasM, 1, "exploratory", 2) :
        nb \in 0..MaxBuilds, sel \in Selections, np \in 0..MaxPinnings,
        hasTm \in BOOLEAN, ms \in SeqsUpTo(MetricEntries, MaxMetrics),
        hasM \in BOOLEAN}

IdleConfig == Config(<<>>, [all |-> TRUE, names |-> {}], <<>>, TRUE, <<>>, TRUE,
                     1, "deep", 2)

(***************************************************************************)
(* ProvenanceCollector.  host says which sources answer: the ldd and       *)
(* numactl tools, /proc/cpuinfo and the two kernel tunable files; readable *)
(* is the set of binary paths that can be opened.                          *)
(***************************************************************************)
\* Lines 31-38: no exception handler; open() raises on an unreadable path.
binary_sha256(path, fs) ==
    IF path \in fs THEN [raised |-> FALSE, value |-> "sha256"]
    ELSE [raised |-> TRUE, value |-> ""]

\* Lines 40-57: ldd fails on a missing tool or an unreadable file.
linked_blas(path, fs, h) ==
    IF h.ldd /\ path \in fs THEN "libs" ELSE "Error getting ldd"

\* Lines 59-77.
numa_status(h) == IF h.numactl THEN "available" ELSE "unavailable"

\* Lines 79-97.
cpu_info(h) == IF h.cpuinfo THEN "model" ELSE "error"

\* Lines 99-113: each tunable on its own.
kernel_setting(ok) == IF ok THEN "value" ELSE "N/A"

\* Lines 115-129.  raised: binary_sha256's exception, which nothing catches.
collect_all(binary_path, fs, h) ==
    LET sha == binary_sha256(binary_path, fs) IN
    [raised |-> sha.raised,
     snapshot |-> [path |-> binary_path,
                   sha256 |-> sha.value,
                   linked_libs |-> linked_blas(binary_path, fs, h),
                   numa |-> numa_status(h),
                   cpu |-> cpu_info(h),
                   numa_balancing |-> kernel_setting(h.numa_balancing),
                   cpu_governor |-> kernel_setting(h.cpu_governor)]]

Hosts == [ldd : BOOLEAN, numactl : BOOLEAN, cpuinfo : BOOLEAN,
          numa_balancing : BOOLEAN, cpu_governor : BOOLEAN]

(***************************************************************************)
(* The report base directory (lines 337-356).  A report directory is named *)
(* after its timestamp; f.dirs are the report directories that exist,      *)
(* f.latest is the name the symbolic link 'latest' holds, NoLink when      *)
(* there is no such link.  A link whose name is not in f.dirs dangles.     *)
(***************************************************************************)
NoLink == 0

\* self.report_dir.mkdir(parents=True, exist_ok=True)  (line 350)
mkdir(f, report_name) == [f EXCEPT !.dirs = @ \cup {report_name}]

\* latest_link.exists() (line 354): Path.exists follows the link, so it is
\* true only of a link whose target exists.
exists(f) == f.latest # NoLink /\ f.latest \in f.dirs

\* latest_link.unlink()  (line 355)
unlink(f) == [f EXCEPT !.latest = NoLink]

\* latest_link.symlink_to(report_name) (line 356): FileExistsError when the
\* name 'latest' is taken, by a dangling link too.
symlink_to(f, report_name) ==
    IF f.latest # NoLink
    THEN [raised |-> TRUE, base |-> f]
    ELSE [raised |-> FALSE, base |-> [f EXCEPT !.latest = report_name]]

\* BenchmarkOrchestrator.__init__ : line 350.
MakeReportDir ==
    /\ pc = "new"
    /\ report_base' = mkdir(report_base, now)
    /\ pc' = "made"
    /\ UNCHANGED <<now, matrix, idx, rep, provenance, run_results, results, disk,
                   summary, promote, interrupted, console, collected, saves>>
    /\ UNCHANGED <<runnerVars, worldVars, cmdVars>>

\* Lines 354-355.
UnlinkLatest ==
    /\ pc = "made"
    /\ report_base' = IF exists(report_base) THEN unlink(report_base) ELSE report_base
    /\ pc' = "unlinked"
    /\ UNCHANGED <<now, matrix, idx, rep, provenance, run_results, results, disk,
                   summary, promote, interrupted, console, collected, saves>>
    /\ UNCHANGED <<runnerVars, worldVars, cmdVars>>

\* Line 356; an exception leaves __init__ and ends main().
SymlinkLatest ==
    /\ pc = "unlinked"
    /\ LET l == symlink_to(report_base, now) IN
           /\ report_base' = l.base
           /\ pc' = IF l.raised THEN "init_failed" ELSE "start"
    /\ UNCHANGED <<now, matrix, idx, rep, provenance, run_results, results, disk,
                   summary, promote, interrupted, console, collected, saves>>
    /\ UNCHANGED <<runnerVars, worldVars, cmdVars>>
(***************************************************************************)
(* Results, the summary and the promoted configuration.  Throughput is     *)
(* counted in thousandths of a token per second.                           *)
(***************************************************************************)
\* Lines 470-474.
TestExecution(test, prov, runs) == [test |-> test, provenance |-> prov, runs |-> runs]

\* run['performance'].get('tokens_per_sec', 0)  (lines 552, 599)
TokensPerSec(run) ==
    IF run.performance.tokens_per_sec = NoKey THEN 0
    ELSE run.performance.tokens_per_sec

RECURSIVE SumPerfs(_, _)
SumPerfs(runs, i) ==
    IF i > Len(runs) THEN 0 ELSE TokensPerSec(runs[i]) + SumPerfs(runs, i + 1)

\* The metric names of the results, each once, in order of first appearance
\* (the keys of by_metric: lines 532-537, 591-595).
RECURSIVE MetricNames(_, _, _)
MetricNames(rs, i, seen) ==
    IF i > Len(rs) THEN <<>>
    ELSE LET n == rs[i].test.metric.name IN
         IF n \in seen THEN MetricNames(rs, i + 1, seen)
         ELSE <<n>> \o MetricNames(rs, i + 1, seen \cup {n})

OfMetric(rs, name) == SelectSeq(rs, LAMBDA r : r.test.metric.name = name)

\* list.sort(reverse=True) on a key that is the ratio ksum / kn: descending
\* and stable.  x goes before the first element whose key is smaller.
KeyLess(a, b) == a.ksum * b.kn < b.ksum * a.kn

InsertDesc(x, t) ==
    LET smaller == {i \in 1..Len(t) : KeyLess(t[i], x)}
        pos == IF smaller = {} THEN Len(t) + 1
               ELSE CHOOSE i \in smaller : \A j \in smaller : i <= j
    IN  SubSeq(t, 1, pos - 1) \o <<x>> \o SubSeq(t, pos, Len(t))

RECURSIVE SortDesc(_)
SortDesc(s) ==
    IF s = <<>> THEN <<>>
    ELSE InsertDesc(s[Len(s)], SortDesc(SubSeq(s, 1, Len(s) - 1)))

\* f"{avg_perf:.2f}" read back by float(): the mean in hundredths, rounded
\* to the nearest.  (Means that end in exactly half a hundredth are not
\* among the values the model draws.)
Format2(sum, n) == (2 * sum + 10 * n) \div (20 * n)

\* Lines 544-567: one row of a metric table.
SummaryRow(r) ==
    [build |-> r.test.build.name, config |-> r.test.pinning.name,
     ksum |-> Format2(SumPerfs(r.runs, 1), Len(r.runs)), kn |-> 1,
     reps |-> Len(r.runs)]

\* Lines 539-574: the table of one metric.
MetricTable(rs, name) ==
    LET withRuns == SelectSeq(OfMetric(rs, name), LAMBDA r : r.runs # <<>>)
        rows == [k \in 1..Len(withRuns) |-> SummaryRow(withRuns[k])]
    IN  [metric |-> name, rows |-> SortDesc(rows)]

\* Lines 513-580.
generate_summary_markdown(rs) ==
    LET names == MetricNames(rs, 1, {})
    IN  [k \in 1..Len(names) |-> MetricTable(rs, names[k])]

\* Lines 597-601: the (avg_perf, result) pairs of one metric.
Ranked(rs, name) ==
    LET withRuns == SelectSeq(OfMetric(rs, name), LAMBDA r : r.runs # <<>>)
    IN  [k \in 1..Len(withRuns) |->
            [ksum |-> SumPerfs(withRuns[k].runs, 1), kn |-> Len(withRuns[k].runs),
             result |-> withRuns[k]]]

\* A faulty variant: the slice taken from the unsorted list.
TopOfMetric_unsorted(rs, name, top_n) ==
    LET s == Ranked(rs, name)
    IN  [k \in 1..Min(top_n, Len(s)) |-> s[k].result]

\* Lines 605-607: results.sort(reverse=True); results[:top_n].
TopOfMetric(rs, name, top_n) ==
    LET s == SortDesc(Ranked(rs, name))
    IN  [k \in 1..Min(top_n, Len(s)) |-> s[k].result]

RECURSIVE Winners(_, _, _, _)
Winners(rs, names, k, top_n) ==
    IF k > Len(names) THEN <<>>
    ELSE TopOfMetric(rs, names[k], top_n) \o Winners(rs, names, k + 1, top_n)

\* Lines 643-650: the builds of the winners, each name once.
RECURSIVE PromotedBuilds(_, _, _)
PromotedBuilds(ws, i, seen) ==
    IF i > Len(ws) THEN <<>>
    ELSE LET b == ws[i].test.build IN
         IF b.name \in seen THEN PromotedBuilds(ws, i + 1, seen)
         ELSE <<[name |-> b.name, binary |-> b.binary]>>
                  \o PromotedBuilds(ws, i + 1, seen \cup {b.name})

\* Lines 656-657: next(cfg for cfg in original_matrix if cfg['name'] == name).
MatchingConfigs(c, name) == SelectSeq(c.test_matrix, LAMBDA cfg : cfg.name = name)

\* Lines 653-661: the test_matrix entries of the winners, each name once.
RECURSIVE PromotedMatrix(_, _, _, _)
PromotedMatrix(c, ws, i, seen) ==
    IF i > Len(ws) THEN <<>>
    ELSE LET n == ws[i].test.pinning.name
             found == MatchingConfigs(c, n)
         IN  IF n \in seen \/ found = <<>> THEN PromotedMatrix(c, ws, i + 1, seen)
             ELSE <<found[1]>> \o PromotedMatrix(c, ws, i + 1, seen \cup {n})

\* Lines 582-666.
generate_promote_config(c, rs) ==
    LET winners == Winners(rs, MetricNames(rs, 1, {}), 1, c.top_n)
        builds == PromotedBuilds(winners, 1, {})
    IN  [written |-> TRUE,
         winners |-> winners,
         builds |-> builds,
         builds_select |-> [k \in 1..Len(builds) |-> builds[k].name],
         test_matrix |-> PromotedMatrix(c, winners, 1, {}),
         metrics |-> ConfigMetrics(c),
         repetitions |-> 10,
         mode |-> "deep"]

(***************************************************************************)
(* BenchmarkOrchestrator.run_all and generate_reports, as main() calls     *)
(* them (lines 700-701).  pc: "start", then per test case "collect",       *)
(* "rep" (once per repetition), "append", and for a test case that has     *)
(* results "save_open", "save_dump", "summary"; "completed" when run_all   *)
(* has returned, "done" after generate_reports; "crashed" when an          *)
(* exception left run_all.                                                 *)
(***************************************************************************)
Running == {"collect", "rep", "append", "save_open", "save_dump", "summary"}

\* What the child process of one repetition may do: exit non-zero (with a
\* parsable stdout), run past the timeout, print text that does not parse,
\* or succeed reporting one of the throughputs tps.
StubChildren(tps) ==
    {[returncode |-> 1, duration |-> 1, stdout |-> <<LB, LC, Avg(1), RC, RB>>],
     [returncode |-> 0, duration |-> TIMEOUT_S + 1, stdout |-> <<>>],
     [returncode |-> 0, duration |-> 1, stdout |-> <<BANNER>>]}
    \cup {[returncode |-> 0, duration |-> 1, stdout |-> <<LB, LC, Avg(v), RC, RB>>] :
             v \in tps}

\* The loop of line 446 moves on.
NextTest ==
    /\ idx' = idx + 1
    /\ pc' = IF idx + 1 > Len(matrix) THEN "completed" ELSE "collect"

\* Lines 433-446.
StartRunAll ==
    /\ pc = "start" /\ ~interrupted
    /\ LET g == generate_test_matrix(config) IN
           /\ matrix' = g.matrix
           /\ idx' = 1
           /\ pc' = IF g.raised THEN "crashed"
                    ELSE IF g.matrix = <<>> THEN "completed" ELSE "collect"
    /\ UNCHANGED <<rep, provenance, run_results, results, disk, summary, promote,
                   interrupted, console, collected, saves>>
    /\ UNCHANGED <<runnerVars, worldVars, fsVars, cmdVars>>

\* Lines 449-456: collect_all for the test case in hand, whatever its metric.
CollectProvenance ==
    /\ pc = "collect" /\ ~interrupted
    /\ LET c == collect_all(matrix[idx].build.binary, readable, host) IN
           /\ collected' = Append(collected, idx)
           /\ provenance' = IF c.raised THEN provenance ELSE c.snapshot
           /\ pc' = IF c.raised THEN "crashed"
                    ELSE IF Repetitions(config) >= 1 THEN "rep" ELSE "append"
    /\ run_results' = <<>>
    /\ rep' = 1
    /\ UNCHANGED <<matrix, idx, results, disk, summary, promote, interrupted,
                   console, saves>>
    /\ UNCHANGED <<runnerVars, worldVars, fsVars, cmdVars>>

\* Lines 457-467: one pass of the repetition loop.  The child of repetition
\* r that succeeds reports throughput r.
RunRepetition ==
    /\ pc = "rep" /\ ~interrupted
    /\ \E c \in StubChildren({rep}) :
          LET result == run_single(c) IN
              /\ console' = Append(console, <<idx, rep, result.success>>)
              /\ run_results' = IF result.success THEN Append(run_results, result)
                                ELSE run_results
    /\ rep' = rep + 1
    /\ pc' = IF rep >= Repetitions(config) THEN "append" ELSE "rep"
    /\ UNCHANGED <<matrix, idx, provenance, results, disk, summary, promote,
                   interrupted, collected, saves>>
    /\ UNCHANGED <<runnerVars, worldVars, fsVars, cmdVars>>

\* A faulty variant: the test of line 469 left out.
ShouldAppend_always(rr) == TRUE

\* Line 469:  if run_results:
ShouldAppend(rr) == rr # <<>>

\* Lines 469-474.
AppendExecution ==
    /\ pc = "append" /\ ~interrupted
    /\ IF ShouldAppend(run_results)
       THEN /\ results' = Append(results,
                                 TestExecution(matrix[idx], provenance, run_results))
            /\ pc' = "save_open"
            /\ idx' = idx
       ELSE /\ results' = results
            /\ NextTest
    /\ UNCHANGED <<matrix, rep, provenance, run_results, disk, summary, promote,
                   interrupted, console, collected, saves>>
    /\ UNCHANGED <<runnerVars, worldVars, fsVars, cmdVars>>

\* Lines 483-484: open(raw_json, 'w') empties the file.
SaveOpen ==
    /\ pc = "save_open" /\ ~interrupted
    /\ saves' = saves + 1
    /\ disk' = [state |-> "truncated", data |-> <<>>]
    /\ pc' = "save_dump"
    /\ UNCHANGED <<matrix, idx, rep, provenance, run_results, results, summary,
                   promote, interrupted, console, collected>>
    /\ UNCHANGED <<runnerVars, worldVars, fsVars, cmdVars>>

\* Line 485: json.dump and the close of the file.
SaveDump ==
    /\ pc = "save_dump" /\ ~interrupted
    /\ disk' = [state |-> "written", data |-> results]
    /\ pc' = "summary"
    /\ UNCHANGED <<matrix, idx, rep, provenance, run_results, results, summary,
                   promote, interrupted, console, collected, saves>>
    /\ UNCHANGED <<runnerVars, worldVars, fsVars, cmdVars>>

\* Line 488, and back to the loop of line 446.
WriteSummary ==
    /\ pc = "summary" /\ ~interrupted
    /\ summary' = generate_summary_markdown(results)
    /\ NextTest
    /\ UNCHANGED <<matrix, rep, provenance, run_results, results, disk, promote,
                   interrupted, console, collected, saves>>
    /\ UNCHANGED <<runnerVars, worldVars, fsVars, cmdVars>>

\* Lines 490-511.
GenerateReports ==
    /\ pc = "completed" /\ ~interrupted
    /\ disk' = [state |-> "written", data |-> results]
    /\ summary' = generate_summary_markdown(results)
    /\ promote' = IF config.mode = "exploratory"
                  THEN generate_promote_config(config, results) ELSE promote
    /\ pc' = "done"
    /\ UNCHANGED <<matrix, idx, rep, provenance, run_results, results,
                   interrupted, console, collected, saves>>
    /\ UNCHANGED <<runnerVars, worldVars, fsVars, cmdVars>>

\* Lines 446-477 for one test case, in one step: provenance, every
\* repetition (each returns one of outcomes, what run_single makes of the
\* children), the append and the incremental save.  The console is not
\* recorded.
RunTestCase(outcomes) ==
    /\ pc = "collect" /\ ~interrupted
    /\ LET c == collect_all(matrix[idx].build.binary, readable, host) IN
       \E attempts \in [1..Repetitions(config) -> outcomes] :
          LET runs == SelectSeq(attempts, LAMBDA a : a.success)
              appended == Append(results, TestExecution(matrix[idx], c.snapshot, runs))
          IN  /\ collected' = Append(collected, idx)
              /\ IF c.raised
                 THEN /\ pc' = "crashed"
                      /\ UNCHANGED <<idx, rep, provenance, run_results, results,
                                     disk, summary, saves>>
                 ELSE /\ provenance' = c.snapshot
                      /\ run_results' = runs
                      /\ rep' = Repetitions(config) + 1
                      /\ NextTest
                      /\ IF ShouldAppend(runs)
                         THEN /\ results' = appended
                              /\ saves' = saves + 1
                              /\ disk' = [state |-> "written", data |-> appended]
                              /\ summary' = generate_summary_markdown(appended)
                         ELSE UNCHANGED <<results, saves, disk, summary>>
    /\ UNCHANGED <<matrix, promote, interrupted, console>>
    /\ UNCHANGED <<runnerVars, worldVars, fsVars, cmdVars>>

\* The process is killed while run_all is under way.
Interrupt ==
    /\ pc \in Running /\ ~interrupted
    /\ interrupted' = TRUE
    /\ UNCHANGED <<pc, matrix, idx, rep, provenance, run_results, results, disk,
                   summary, promote, console, collected, saves>>
    /\ UNCHANGED <<runnerVars, worldVars, fsVars, cmdVars>>

(***************************************************************************)
(* Initial values                                                          *)
(***************************************************************************)
NoRet == [kind |-> "pending", result |-> NoResult, perf |-> None]
NoProvenance == [path |-> "", sha256 |-> "", linked_libs |-> "", numa |-> "",
                 cpu |-> "", numa_balancing |-> "", cpu_governor |-> ""]
NoDisk == [state |-> "absent", data |-> <<>>]
NoPromote == [written |-> FALSE, winners |-> <<>>, builds |-> <<>>,
              builds_select |-> <<>>, test_matrix |-> <<>>, metrics |-> <<>>,
              repetitions |-> 0, mode |-> ""]
AllHost == [ldd |-> TRUE, numactl |-> TRUE, cpuinfo |-> TRUE,
            numa_balancing |-> TRUE, cpu_governor |-> TRUE]
IdleChild == [returncode |-> 0, duration |-> 0, stdout |-> <<>>]

NoArgs == [binary |-> <<>>, model |-> <<>>, metric_args |-> <<>>,
           numactl |-> <<>>, llama_numa |-> <<>>, llama_bench_reps |-> NoKey]

RunnerIdle ==
    /\ child = IdleChild /\ rpc = "idle" /\ ret = NoRet
    /\ args = NoArgs /\ cmd = <<>>

\* The report base directory as __init__ leaves a fresh one (lines 337-356).
FsReady == report_base = [dirs |-> {1}, latest |-> 1] /\ now = 1

\* The orchestrator as __init__ leaves it (lines 334-335), nothing on disk.
OrchInit ==
    /\ FsReady
    /\ pc = "start"
    /\ matrix = <<>>
    /\ idx = 0
    /\ rep = 0
    /\ provenance = NoProvenance
    /\ run_results = <<>>
    /\ results = <<>>
    /\ disk = NoDisk
    /\ summary = <<>>
    /\ promote = NoPromote
    /\ interrupted = FALSE
    /\ console = <<>>
    /\ collected = <<>>
    /\ saves = 0

(***************************************************************************)
(* The runner harness: a child process with any behaviour, then one call.  *)
(***************************************************************************)
MaxAny == 3
MaxMembers == 2
MaxBanner == 1

Throughputs == {1, 2}
Alphabet == {LB, RB, LC, RC, BANNER, NOTE} \cup {Avg(x) : x \in Throughputs}
MemberTokens == {NOTE} \cup {Avg(x) : x \in Throughputs}
BannerTokens == Alphabet \ {LC}


ObjectTexts == {<<LC>> \o m \o <<RC>> : m \in SeqsUpTo(MemberTokens, MaxMembers)}
ArrayTexts == {<<LB>> \o b \o o \o <<RB>> :
                   b \in SeqsUpTo(BannerTokens, MaxBanner), o \in ObjectTexts}
Outputs == SeqsUpTo(Alphabet, MaxAny) \cup ObjectTexts \cup ArrayTexts

Durations == {1, TIMEOUT_S - 1, TIMEOUT_S + 1}
Children == [returncode : {0, 1}, duration : Durations, stdout : Outputs]

InitRunner ==
    /\ child \in Children
    /\ rpc = "ready"
    /\ ret = NoRet
    /\ args = NoArgs /\ cmd = <<>>
    /\ config = IdleConfig
    /\ readable = {}
    /\ host = AllHost
    /\ OrchInit

\* A direct call of the static method on the child's stdout.
ParseBenchOutput ==
    /\ rpc = "ready"
    /\ ret' = [kind |-> "parse", result |-> NoResult,
               perf |-> parse_bench_output(child.stdout)]
    /\ rpc' = "parsed"
    /\ UNCHANGED <<child, worldVars, orchVars, fsVars, cmdVars>>

RunSingle ==
    /\ rpc = "ready"
    /\ ret' = [kind |-> "run", result |-> run_single(child), perf |-> None]
    /\ rpc' = "returned"
    /\ UNCHANGED <<child, worldVars, orchVars, fsVars, cmdVars>>

NextRunner == ParseBenchOutput \/ RunSingle

SpecRunner == InitRunner /\ [][NextRunner]_vars

(***************************************************************************)
(* main() with --dry-run (lines 693-698): expand the matrix, print it and  *)
(* exit.                                                                   *)
(***************************************************************************)
InitMatrix ==
    /\ RunnerIdle
    /\ config \in MatrixConfigs
    /\ readable = {b.binary : b \in {AllBuilds[i] : i \in DOMAIN AllBuilds}}
    /\ host = AllHost
    /\ OrchInit

DryRun ==
    /\ pc = "start"
    /\ LET g == generate_test_matrix(config) IN
           /\ matrix' = g.matrix
           /\ pc' = IF g.raised THEN "crashed" ELSE "exit"
    /\ UNCHANGED <<idx, rep, provenance, run_results, results, disk, summary,
                   promote, interrupted, console, collected, saves>>
    /\ UNCHANGED <<runnerVars, worldVars, fsVars, cmdVars>>

NextMatrix == DryRun

SpecMatrix == InitMatrix /\ [][NextMatrix]_vars

(***************************************************************************)
(* A whole run: main() without --dry-run.                                  *)
(***************************************************************************)
\* Configurations for a run: every build selected, shorthand metrics.
RunShapes ==
    {s \in (1..MaxBuilds) \X (1..MaxPinnings) \X (1..MaxMetrics) :
        s[1] * s[2] * s[3] <= MaxTests}

RunConfigs ==
    {Config(Prefix(AllBuilds, s[1]), [all |-> TRUE, names |-> {}],
            Prefix(AllPinnings, s[2]), TRUE, Prefix(ShorthandMetrics, s[3]), TRUE,
            reps, "exploratory", 2) :
        s \in RunShapes, reps \in 1..MaxReps}

BinariesOf(c) == {c.builds[i].binary : i \in DOMAIN c.builds}

Init ==
    /\ RunnerIdle
    /\ config \in RunConfigs
    /\ readable \in SUBSET BinariesOf(config)
    /\ host \in Hosts
    /\ OrchInit

Next ==
    \/ StartRunAll
    \/ CollectProvenance
    \/ RunRepetition
    \/ AppendExecution
    \/ SaveOpen
    \/ SaveDump
    \/ WriteSummary
    \/ GenerateReports
    \/ Interrupt

Spec == Init /\ [][Next]_vars

(***************************************************************************)
(* A whole run seen test case by test case, for the reports: children that *)
(* report different throughputs, and any top_n.                            *)
(***************************************************************************)
ReportThroughputs == {1, 12}
ReportShapes == {<<2, 2, 1>>, <<1, 1, 2>>}

ReportConfigs ==
    {Config(Prefix(AllBuilds, s[1]), [all |-> TRUE, names |-> {}],
            Prefix(AllPinnings, s[2]), TRUE, Prefix(ShorthandMetrics, s[3]), TRUE,
            reps, "exploratory", topn) :
        s \in ReportShapes, reps \in 1..MaxReps, topn \in 0..MaxTopN}

InitReport ==
    /\ RunnerIdle
    /\ config \in ReportConfigs
    /\ readable = BinariesOf(config)
    /\ host = AllHost
    /\ OrchInit

\* What run_single returns for the children of a repetition.
ReportOutcomes == {run_single(c) : c \in StubChildren(ReportThroughputs)}

RunTestCaseAny == RunTestCase(ReportOutcomes)

NextReport ==
    \/ StartRunAll
    \/ RunTestCaseAny
    \/ GenerateReports

SpecReport == InitReport /\ [][NextReport]_vars

(***************************************************************************)
(* BenchmarkOrchestrator(config_path) on a report base directory in any    *)
(* earlier state: report directories of earlier runs, some of them removed *)
(* since, and 'latest' absent, referring to one that exists, or dangling.  *)
(***************************************************************************)
MaxStamp == 4

InitConstruct ==
    /\ RunnerIdle
    /\ config = IdleConfig
    /\ readable = {}
    /\ host = AllHost
    /\ now \in 1..MaxStamp
    /\ \E dirs \in SUBSET (1..MaxStamp), latest \in {NoLink} \cup (1..MaxStamp) :
          /\ \A d \in dirs : d <= now
          /\ latest <= now
          /\ report_base = [dirs |-> dirs, latest |-> latest]
    /\ pc = "new"
    /\ matrix = <<>> /\ idx = 0 /\ rep = 0
    /\ provenance = NoProvenance
    /\ run_results = <<>> /\ results = <<>>
    /\ disk = NoDisk /\ summary = <<>> /\ promote = NoPromote
    /\ interrupted = FALSE
    /\ console = <<>> /\ collected = <<>> /\ saves = 0

NextConstruct == MakeReportDir \/ UnlinkLatest \/ SymlinkLatest

SpecConstruct == InitConstruct /\ [][NextConstruct]_vars
(***************************************************************************)
(* build_command called on metric argument strings made of llama-bench     *)
(* options and values, with and without an output-format flag, under any   *)
(* pinning.                                                                *)
(***************************************************************************)
MaxArgWords == 3

ArgWords == {<<"-", "p">>, <<"5", "1", "2">>, DashO, DashDashOutput,
             <<"c", "s", "v">>,
             <<"-", "-", "n", "o", "-", "k", "v", "-", "o", "f", "f", "l", "o", "a", "d">>}

\* ' '.join(words)
RECURSIVE Join(_)
Join(words) ==
    IF words = <<>> THEN <<>>
    ELSE IF Len(words) = 1 THEN words[1]
    ELSE words[1] \o <<" ">> \o Join(Tail(words))

MetricArgs == {Join(w) : w \in SeqsUpTo(ArgWords, MaxArgWords)}

CommandArgs ==
    [binary : {<<"b">>}, model : {<<"g">>}, metric_args : MetricArgs,
     numactl : {<<>>, <<"-", "i", " ", "-", "l">>},
     llama_numa : {<<>>, <<"d">>},
     llama_bench_reps : {NoKey, 3}]

InitCommand ==
    /\ child = IdleChild /\ ret = NoRet
    /\ rpc = "ready"
    /\ args \in CommandArgs
    /\ cmd = <<>>
    /\ config = IdleConfig
    /\ readable = {}
    /\ host = AllHost
    /\ OrchInit

BuildCommand ==
    /\ rpc = "ready"
    /\ cmd' = build_command(args)
    /\ rpc' = "returned"
    /\ UNCHANGED <<child, ret, args, worldVars, orchVars, fsVars>>

NextCommand == BuildCommand

SpecCommand == InitCommand /\ [][NextCommand]_vars
(***************************************************************************)
(* Claims about the runner                                                 *)
(***************************************************************************)
\* s[from..to] is the member list of an object holding avg_ts exactly once.
MembersWithOneAvg(s, from, to) ==
    /\ \A i \in from..to : s[i] \in MemberTokens
    /\ Cardinality({i \in from..to : s[i].t = "avg_ts"}) = 1
AvgIn(s, from, to) == s[CHOOSE i \in from..to : s[i].t = "avg_ts"].v

\* s is  [ banner { members } ]  with the '{' at position j: a well-formed
\* array of one object (j = 2), or the same with text holding no '{'
\* put between the '[' and the '{'.
IsBanneredArray(s, j) ==
    /\ Len(s) >= 5
    /\ s[1] = LB /\ s[Len(s)] = RB /\ s[Len(s) - 1] = RC
    /\ j \in 2..(Len(s) - 3)
    /\ s[j] = LC
    /\ \A i \in 2..(j - 1) : ~HasChar(s[i], "{")
    /\ MembersWithOneAvg(s, j + 1, Len(s) - 2)

\* s is  { members } : a single JSON object, not wrapped in an array.
IsBareObject(s) ==
    /\ Len(s) >= 3
    /\ s[1] = LC /\ s[Len(s)] = RC
    /\ MembersWithOneAvg(s, 2, Len(s) - 1)

\* C3: run_single returns a RunResult only when the child exited with code
\* zero within the 300 second timeout and its stdout parsed to a record; a
\* non-zero exit yields nothing whatever the stdout holds, a child running
\* past the timeout yields nothing, and the call always returns.
C3_RunSingleResultOnlyOnCleanExit ==
    /\ rpc = "ready" =>
          run_single(child) \in {NoResult, RunResult(parse_bench_output(child.stdout))}
    /\ rpc = "returned" =>
          /\ ret.result.success =>
                /\ child.returncode = 0
                /\ child.duration <= TIMEOUT_S
                /\ parse_bench_output(child.stdout).kind = "perf"
                /\ ret.result.performance = parse_bench_output(child.stdout)
          /\ child.returncode # 0 => ret.result = NoResult
          /\ child.duration > TIMEOUT_S => ret.result = NoResult

\* C3 witness: a child that exits non-zero with a perfectly parsable
\* stdout, and run_single has returned nothing.
C3_Witness ==
    /\ rpc = "returned"
    /\ child.returncode # 0
    /\ child.duration <= TIMEOUT_S
    /\ child.stdout = <<LB, LC, Avg(2), RC, RB>>
    /\ ret.result = NoResult

\* C8: for a well-formed array of one object with avg_ts = v the parser
\* returns the record with throughput v; with text holding no '{' put
\* between the '[' and the '{' it returns the identical record; for text
\* with neither '{' nor '[' it returns None.
C8_ParserToleratesBanner ==
    rpc = "parsed" =>
        /\ \A j \in 2..Len(child.stdout) :
              IsBanneredArray(child.stdout, j) =>
                  ret.perf = Perf(AvgIn(child.stdout, j + 1, Len(child.stdout) - 2))
        /\ (\A i \in 1..Len(child.stdout) :
                ~HasChar(child.stdout[i], "{") /\ ~HasChar(child.stdout[i], "["))
              => ret.perf = None

\* C8 witness: a banner between '[' and '{', and the record of the clean
\* payload returned.
C8_Witness ==
    /\ rpc = "parsed"
    /\ child.stdout = <<LB, BANNER, LC, Avg(2), RC, RB>>
    /\ ret.perf = Perf(2)

\* C9: for stdout that is a single well-formed JSON object containing
\* avg_ts = v, whatever its other fields, the parser returns the record with
\* throughput v.
C9_BareObjectParsed ==
    rpc = "parsed" /\ IsBareObject(child.stdout) =>
        ret.perf = Perf(AvgIn(child.stdout, 2, Len(child.stdout) - 1))

(***************************************************************************)
(* Claims about the test matrix                                            *)
(***************************************************************************)
\* A valid configuration: it has its test_matrix and metrics sections, and
\* every metric given as a string is one of the three shorthands.
Shorthands == {"pp512", "tg128", "mixed"}
ValidConfig(c) ==
    /\ c.has_test_matrix
    /\ c.has_metrics
    /\ \A i \in DOMAIN c.metrics : c.metrics[i].is_str => c.metrics[i].name \in Shorthands

\* The positions in builds of the selected builds, and the b-th of them.
SelectedPositions(c) ==
    {i \in DOMAIN c.builds :
        c.builds_select.all \/ c.builds[i].name \in c.builds_select.names}
NthSelected(c, b) ==
    CHOOSE i \in SelectedPositions(c) :
        Cardinality({j \in SelectedPositions(c) : j < i}) = b - 1

\* The workload a configured metric stands for (spec section 6).
ExpectedMetric(m) ==
    IF ~m.is_str THEN [name |-> m.name, args |-> m.args]
    ELSE CASE m.name = "pp512" -> [name |-> "pp512", args |-> "-p 512 -n 0"]
           [] m.name = "tg128" -> [name |-> "tg128", args |-> "-p 0 -n 128"]
           [] m.name = "mixed" -> [name |-> "mixed", args |-> "-pg 512,128"]

\* C1: for every valid configuration the matrix has
\* |selected builds| x |test_matrix entries| x |configured metrics| elements,
\* in builds-outer / pinning-middle / metric-inner order, each level in the
\* order the configuration declares it, nothing skipped and nothing twice.
C1_MatrixIsOrderedCrossProduct ==
    pc = "exit" /\ ValidConfig(config) =>
        LET nb == Cardinality(SelectedPositions(config))
            np == Len(config.test_matrix)
            nm == Len(config.metrics)
        IN  /\ Len(matrix) = nb * np * nm
            /\ \A b \in 1..nb, p \in 1..np, m \in 1..nm :
                  matrix[((b - 1) * np + (p - 1)) * nm + m] =
                      [build |-> config.builds[NthSelected(config, b)],
                       pinning |-> config.test_matrix[p],
                       metric |-> ExpectedMetric(config.metrics[m])]

\* C1 witness: two builds of which the second alone is selected, two
\* pinning entries, a shorthand and an explicit metric: four test cases.
C1_Witness ==
    /\ pc = "exit"
    /\ ValidConfig(config)
    /\ Len(config.builds) = 2
    /\ config.builds_select = [all |-> FALSE, names |-> {"B"}]
    /\ Len(config.test_matrix) = 2
    /\ config.metrics = <<MetricStr("mixed"), MetricDict("custom", "-p 64 -n 64")>>
    /\ Len(matrix) = 4
    /\ matrix[4].metric.name = "custom"


\* C12: a configuration without the 'metrics' key makes generate_test_matrix
\* raise a configuration error: the run aborts and no test case is produced.
C12_MissingMetricsRaises ==
    pc # "start" /\ ~config.has_metrics =>
        /\ pc = "crashed"
        /\ matrix = <<>>
(***************************************************************************)
(* Claims about a run                                                      *)
(***************************************************************************)
\* What the file holds of completed TestExecutions: an emptied or half
\* written file holds none.
DiskExecutions == IF disk.state = "written" THEN disk.data ELSE <<>>

\* The test cases run_all has finished with.
Finished(i) == i \in 1..Len(matrix) /\ (i < idx \/ pc \in {"completed", "done"})

\* The repetitions of test case i that were attempted, and those that
\* succeeded, in the order of the attempts.
AttemptsOf(i) == SelectSeq(console, LAMBDA ev : ev[1] = i)
SuccessesOf(i) == SelectSeq(console, LAMBDA ev : ev[1] = i /\ ev[3])

\* The index in the matrix of the test case of execution e.
TestIndex(e) == CHOOSE i \in 1..Len(matrix) : matrix[i] = e.test

\* C2: an interruption at any point of the run leaves raw/results.json
\* holding every TestExecution completed before it: those appended and
\* saved before the save in hand began are all still in the file.
C2_InterruptionKeepsCompleted ==
    interrupted =>
        LET before == IF pc \in {"save_open", "save_dump"}
                      THEN Len(results) - 1 ELSE Len(results)
        IN  /\ Len(DiskExecutions) >= before
            /\ \A i \in 1..before : DiskExecutions[i] = results[i]

\* C4: run_all makes exactly the configured number of run_single attempts
\* for every test case of the matrix, in matrix order, whatever each
\* attempt's outcome, and reaches its end.
C4_EveryTestCaseGetsAllRepetitions ==
    /\ pc # "crashed"
    /\ pc \in {"completed", "done"} =>
          /\ Len(console) = Len(matrix) * Repetitions(config)
          /\ \A k \in 1..Len(console) :
                /\ console[k][1] = ((k - 1) \div Repetitions(config)) + 1
                /\ console[k][2] = ((k - 1) % Repetitions(config)) + 1

\* C5: every TestExecution in the accumulator, in the file and in the
\* tables has between 1 and the configured count of RunResults, those of the
\* repetitions that succeeded, in repetition order; a test case whose
\* repetitions all failed adds no TestExecution, triggers no save, is in no
\* table, and raises nothing.
C5_ExecutionsHoldSurvivingRuns ==
    /\ \A k \in 1..Len(results) :
          LET e == results[k]
              ok == SuccessesOf(TestIndex(e))
          IN  /\ Len(e.runs) >= 1 /\ Len(e.runs) <= Repetitions(config)
              /\ Len(e.runs) = Len(ok)
              /\ \A j \in 1..Len(ok) : e.runs[j].performance = Perf(ok[j][2])
    /\ \A k \in 1..Len(DiskExecutions) :
          k <= Len(results) /\ DiskExecutions[k] = results[k]
    /\ \A t \in 1..Len(summary) : \A r \in 1..Len(summary[t].rows) :
          LET row == summary[t].rows[r] IN
              /\ row.reps >= 1 /\ row.reps <= Repetitions(config)
              /\ \E k \in 1..Len(results) :
                    /\ results[k].test.metric.name = summary[t].metric
                    /\ results[k].test.build.name = row.build
                    /\ results[k].test.pinning.name = row.config
                    /\ Len(results[k].runs) = row.reps
    /\ \A i \in 1..Len(matrix) :
          Finished(i) /\ SuccessesOf(i) = <<>> =>
              \A k \in 1..Len(results) : results[k].test # matrix[i]
    /\ saves = IF pc = "save_open" THEN Len(results) - 1 ELSE Len(results)
    /\ pc = "crashed" => matrix[idx].build.binary \notin readable

\* C5 witness: of two test cases the first lost every repetition and the
\* second one of its two; the run is over with one TestExecution of one run.
C5_Witness ==
    /\ pc = "done"
    /\ Len(matrix) = 2
    /\ Repetitions(config) = 2
    /\ SuccessesOf(1) = <<>> /\ Len(AttemptsOf(1)) = 2
    /\ Len(results) = 1
    /\ results[1].test = matrix[2]
    /\ Len(results[1].runs) = 1
    /\ results[1].runs[1].performance = Perf(2)
    /\ DiskExecutions = results
    /\ saves = 1

\* C6: provenance is collected once per (build, pinning) pair: over a whole
\* run the number of collect_all calls is |selected builds| x |pinning
\* strategies|.
C6_ProvenanceOncePerPair ==
    pc \in {"completed", "done"} =>
        Len(collected) = Len(get_selected_builds(config)) * Len(config.test_matrix)

\* C7: provenance collection is never fatal: a facet that fails leaves its
\* marker in the snapshot, the other facets are as the host gives them, and
\* run_all goes on to the repetitions.
C7_ProvenanceNeverFatal ==
    /\ pc # "crashed"
    /\ pc \in {"rep", "append"} =>
          /\ provenance.sha256 =
                (IF matrix[idx].build.binary \in readable THEN "sha256" ELSE "unavailable")
          /\ provenance.numa = (IF host.numactl THEN "available" ELSE "unavailable")
          /\ provenance.cpu = (IF host.cpuinfo THEN "model" ELSE "error")
          /\ provenance.numa_balancing = (IF host.numa_balancing THEN "value" ELSE "N/A")
          /\ provenance.cpu_governor = (IF host.cpu_governor THEN "value" ELSE "N/A")

(***************************************************************************)
(* Claims about the promoted configuration                                 *)
(***************************************************************************)
\* The exact mean of a's runs is at least that of b's.
MeanAtLeast(a, b) ==
    SumPerfs(a.runs, 1) * Len(b.runs) >= SumPerfs(b.runs, 1) * Len(a.runs)

IsWinner(e) == \E j \in 1..Len(promote.winners) : promote.winners[j] = e

\* C10: for each metric generate_promote_config selects exactly
\* min(top_n, available) TestExecutions, those of highest mean throughput,
\* and the promoted configuration holds no build and no pinning entry that
\* the source configuration lacks, each name once, the pinning entries
\* being the source's own.
C10_PromoteSelectsTopN ==
    pc = "done" /\ config.mode = "exploratory" =>
        /\ promote.written
        /\ \A name \in {results[k].test.metric.name : k \in 1..Len(results)} :
              LET avail == {k \in 1..Len(results) : results[k].test.metric.name = name}
                  won == {k \in avail : IsWinner(results[k])}
              IN  /\ Cardinality(won) = Min(config.top_n, Cardinality(avail))
                  /\ \A w \in won, l \in avail \ won :
                        MeanAtLeast(results[w], results[l])
        /\ \A j \in 1..Len(promote.winners) :
              /\ \E k \in 1..Len(results) : results[k] = promote.winners[j]
              /\ \A i \in 1..Len(promote.winners) :
                    promote.winners[i] = promote.winners[j] => i = j
        /\ \A j \in 1..Len(promote.builds) :
              /\ \E i \in 1..Len(config.builds) :
                    /\ config.builds[i].name = promote.builds[j].name
                    /\ config.builds[i].binary = promote.builds[j].binary
              /\ \A i \in 1..Len(promote.builds) :
                    promote.builds[i].name = promote.builds[j].name => i = j
        /\ \A j \in 1..Len(promote.test_matrix) :
              /\ \E i \in 1..Len(config.test_matrix) :
                    config.test_matrix[i] = promote.test_matrix[j]
              /\ \A i \in 1..Len(promote.test_matrix) :
                    promote.test_matrix[i].name = promote.test_matrix[j].name => i = j

\* C10 witness: four TestExecutions of one metric with different means,
\* top_n = 2: two are promoted, both of one build, so the other build is
\* not in the promoted configuration.
C10_Witness ==
    /\ pc = "done"
    /\ config.mode = "exploratory"
    /\ config.top_n = 2
    /\ Len(config.builds) = 2
    /\ Len(results) = 4
    /\ \E k \in 1..4 : ~MeanAtLeast(results[k], results[1])
    /\ Len(promote.winners) = 2
    /\ Len(promote.builds) = 1
    /\ promote.builds[1].name = "B"
    /\ Len(promote.test_matrix) = 2


(***************************************************************************)
(* Claims about the summary                                                *)
(***************************************************************************)
\* The TestExecution a row of the table of a metric was made from.
ExecutionOfRow(metric, row) ==
    CHOOSE e \in {results[k] : k \in 1..Len(results)} :
        /\ e.test.metric.name = metric
        /\ e.test.build.name = row.build
        /\ e.test.pinning.name = row.config

\* The exact mean of a's runs is strictly larger than that of b's.
MeanLarger(a, b) ==
    SumPerfs(a.runs, 1) * Len(b.runs) > SumPerfs(b.runs, 1) * Len(a.runs)

\* C11: in every metric table of the summary the rows are in descending
\* order of exact mean throughput: no row comes after a row whose exact
\* mean is strictly smaller than its own.
C11_RowsDescendByExactMean ==
    \A t \in 1..Len(summary) :
        \A i, j \in 1..Len(summary[t].rows) :
            i < j => ~MeanLarger(ExecutionOfRow(summary[t].metric, summary[t].rows[j]),
                                 ExecutionOfRow(summary[t].metric, summary[t].rows[i]))

\* The sort does act in the model: two rows of one table in the order
\* opposite to that of their TestExecutions in the results.
C11_SortReorders ==
    \E t \in 1..Len(summary) : \E i, j \in 1..Len(summary[t].rows) :
        /\ i < j
        /\ summary[t].rows[i].ksum > summary[t].rows[j].ksum
        /\ \E a, b \in 1..Len(results) :
              /\ a > b
              /\ results[a] = ExecutionOfRow(summary[t].metric, summary[t].rows[i])
              /\ results[b] = ExecutionOfRow(summary[t].metric, summary[t].rows[j])
(***************************************************************************)
(* Claims about the report directory                                       *)
(***************************************************************************)
\* C13: whatever the earlier state of the report base directory ('latest'
\* absent, referring to an existing report directory, or dangling), the
\* construction of the orchestrator succeeds and leaves 'latest' referring
\* to the report directory it created.
C13_LatestPointsToNewReport ==
    /\ pc # "init_failed"
    /\ pc = "start" => now \in report_base.dirs /\ report_base.latest = now
(***************************************************************************)
(* Claims about the command line                                           *)
(***************************************************************************)
\* The vector v holds the pair '-o', 'json'.
HasJsonPair(v) == \E i \in 1..(Len(v) - 1) : v[i] = DashO /\ v[i + 1] = Json

\* A word of the metric argument string is the short or the long
\* output-format flag.
CarriesOutputFlag(s) ==
    \E i \in 1..Len(split(s)) : split(s)[i] \in {DashO, DashDashOutput}

\* C14: when no word of the metric argument string is the -o or the
\* --output flag, the vector build_command returns holds the pair
\* '-o', 'json'; the pair is left out only when the string carries one of
\* the two flags.
C14_JsonForcedUnlessFlagGiven ==
    rpc = "returned" =>
        (~CarriesOutputFlag(args.metric_args) => HasJsonPair(cmd))

\* The rest of build_command in the model: json is forced for plain
\* arguments, and the user's own format is left alone.
C14_PlainArgsForced ==
    /\ rpc = "returned"
    /\ args.metric_args = <<"-", "p", " ", "5", "1", "2">>
    /\ args.numactl # <<>>
    /\ args.llama_bench_reps = 3
    /\ cmd = <<Numactl, <<"-", "i">>, <<"-", "l">>, <<"b">>, DashM, <<"g">>,
               <<"-", "p">>, <<"5", "1", "2">>, DashO, Json, DashR, <<"3">>>>
====
